---- MODULE Spec2Model ----
(***************************************************************************)
(* Credential issuance and verification of the chatbot backend:            *)
(* register and login (app/api/endpoints/auth.py), create_access_token,    *)
(* authenticate_user and get_current_user (app/core/security.py),          *)
(* UserService (app/services/user_service.py) and the request-scoped       *)
(* session of get_db (app/core/database.py).                               *)
(*                                                                         *)
(* Every request is a coroutine; the model gives it one step per await on  *)
(* the store (db.execute, db.commit, db.refresh), which are the points at  *)
(* which other requests can run.  The synchronous code between two awaits  *)
(* belongs to the step of the await that precedes it.  Time is counted in  *)
(* minutes.                                                                *)
(***************************************************************************)
EXTENDS Integers, FiniteSets, Sequences, TLC

VARIABLES
    users,        \* the rows of the users table (committed)
    uniqueEmail,  \* whether the users table declares email unique
    nextId,       \* source of fresh values: uuid4() and the bcrypt salt
    now,          \* datetime.utcnow(), in minutes
    ticks,        \* how many times the clock has advanced
    issued,       \* log of the tokens create_access_token has returned
    req,          \* the requests in flight, one per slot
    started,      \* how many operations have been called
    interleaved   \* history: emails for which two registrations have raced

vars == <<users, uniqueEmail, nextId, now, ticks, issued, req, started, interleaved>>

(***************************************************************************)
(* Bounds of the model.                                                    *)
(***************************************************************************)
MaxReqs == 2
MaxStarts == 3
MaxTicks == 2

Reqs == 1..MaxReqs
Emails == {"a@x", "b@x"}
Passwords == {"p", "q"}

(***************************************************************************)
(* Settings (app/core/config.py).                                          *)
(***************************************************************************)
SECRET_KEY == "server-key"
ALGORITHM == "HS256"
ACCESS_TOKEN_EXPIRE_MINUTES == 30

\* A key that is not the server's: what a client can sign with.
OtherKey == "other-key"

None == "None"

(***************************************************************************)
(* Password hasher: pwd_context = CryptContext(schemes=["bcrypt"]).        *)
(* A bcrypt hash string carries the scheme and the salt and is one-way in  *)
(* the password; verify recomputes with the salt found in the hash.        *)
(***************************************************************************)
get_password_hash(password, salt) ==
    [scheme |-> "bcrypt", salt |-> salt, digest |-> <<salt, password>>]

\* Mutant: the plaintext is compared with the wrong part of the hash.
verify_password_WrongField(plain_password, hashed_password) ==
    hashed_password.scheme = plain_password

verify_password(plain_password, hashed_password) ==
    hashed_password.digest = <<hashed_password.salt, plain_password>>

(***************************************************************************)
(* Tokens: jose.jwt.  A token is its claims and a signature, the MAC of    *)
(* the claims under a key.  "garbage" is a string that is no JWT.          *)
(***************************************************************************)
Sign(claims, key, alg) == <<alg, key, claims.sub, claims.exp>>

jwt_encode(claims, key, alg) ==
    [fmt |-> "jwt", sub |-> claims.sub, exp |-> claims.exp,
     sig |-> Sign(claims, key, alg)]

Garbage == [fmt |-> "garbage", sub |-> None, exp |-> 0, sig |-> <<>>]

\* Mutant: a token is taken as expired already at the instant of its expiry.
jwt_decode_Strict(token, key, alg, t) ==
    IF token.fmt # "jwt" THEN [error |-> "malformed", sub |-> None]
    ELSE IF token.sig # Sign(token, key, alg)
         THEN [error |-> "bad_signature", sub |-> None]
    ELSE IF token.exp <= t THEN [error |-> "expired", sub |-> None]
    ELSE [error |-> None, sub |-> token.sub]

\* jwt.decode(token, key, algorithms=[alg]) at time t: the claims, or the
\* JWTError raised.  The signature is verified first, then exp; a token is
\* expired when exp < now (no leeway).
jwt_decode(token, key, alg, t) ==
    IF token.fmt # "jwt" THEN [error |-> "malformed", sub |-> None]
    ELSE IF token.sig # Sign(token, key, alg)
         THEN [error |-> "bad_signature", sub |-> None]
    ELSE IF token.exp < t THEN [error |-> "expired", sub |-> None]
    ELSE [error |-> None, sub |-> token.sub]

\* expires_delta is None (<<>>) or a timedelta in minutes (<<d>>).  The code
\* tests it for truth, and timedelta(0) is false.
Truthy(expires_delta) == expires_delta # <<>> /\ expires_delta[1] # 0

create_access_token(data, expires_delta, t) ==
    LET expire == IF Truthy(expires_delta)
                  THEN t + expires_delta[1]
                  ELSE t + ACCESS_TOKEN_EXPIRE_MINUTES
    IN jwt_encode([sub |-> data.sub, exp |-> expire], SECRET_KEY, ALGORITHM)

(***************************************************************************)
(* The store.  select(User).where(User.email == email) and                 *)
(* scalar_one_or_none(): the row, None, or MultipleResultsFound.           *)
(***************************************************************************)
RowsByEmail(email) == {u \in users : u.email = email}

\* An optional value is <<>> (None) or <<x>>.
scalar_one_or_none(rows) ==
    IF rows = {} THEN [raise |-> None, row |-> <<>>]
    ELSE IF Cardinality(rows) = 1
         THEN [raise |-> None, row |-> <<CHOOSE u \in rows : TRUE>>]
         ELSE [raise |-> "MultipleResultsFound", row |-> <<>>]

\* Mutant: the query filters on another column and matches nothing.
get_user_by_email_WrongColumn(email) ==
    scalar_one_or_none({u \in users : u.hashed_password.scheme = email})

get_user_by_email(email) == scalar_one_or_none(RowsByEmail(email))

\* Mutant: the store accepts a second row with the same email.
CommitRaises_Never(row) == FALSE

\* db.add + db.commit of a new row: the INSERT fails on the unique index.
CommitRaises(row) ==
    uniqueEmail /\ RowsByEmail(row.email) # {}

\* UserResponse.from_orm: the public view, without the hash.
UserResponse(u) == [id |-> u.id, email |-> u.email, is_guest |-> u.is_guest]

(***************************************************************************)
(* Responses as the caller sees them.                                      *)
(***************************************************************************)
Response(status, detail, www, body) ==
    [status |-> status, detail |-> detail, www |-> www, body |-> body]

DuplicateEmail == Response(400, "Email already registered", None, <<>>)
InvalidCredentials == Response(401, "Incorrect email or password", "Bearer", <<>>)
credentials_exception == Response(401, "Could not validate credentials", "Bearer", <<>>)
ServerError == Response(500, "Internal Server Error", None, <<>>)
Ok(body) == Response(200, None, None, <<body>>)
NoResponse == Response(0, None, None, <<>>)

\* What of a response the caller can tell apart when it is an error.
Visible(resp) == [status |-> resp.status, detail |-> resp.detail, www |-> resp.www]

(***************************************************************************)
(* Requests.                                                               *)
(***************************************************************************)
Idle ==
    [kind |-> "idle", pc |-> "idle", email |-> None, password |-> None,
     resp |-> NoResponse, cause |-> None, row |-> <<>>, session |-> "none",
     releases |-> 0]

InitCommon ==
    /\ users = {}
    /\ nextId = 1
    /\ now = 0
    /\ ticks = 0
    /\ issued = {}
    /\ req = [r \in Reqs |-> Idle]
    /\ started = 0
    /\ interleaved = {}

\* The users table (app/models/user.py) as the persisted layout describes
\* it: email is a unique column.
UsersEmailUnique == TRUE

Init == InitCommon /\ uniqueEmail = UsersEmailUnique

\* The users table without the constraint: uniqueness rests on the
\* pre-check of register alone.
InitNoConstraint == InitCommon /\ uniqueEmail = FALSE

\* A slot takes a new request when it holds none, or one that has been
\* answered.
Answered(r) == req[r].pc \in {"idle", "done"}

\* The slots are interchangeable: a request takes the first free one.
Free(r) ==
    /\ Answered(r)
    /\ \A s \in Reqs : s < r => ~Answered(s)
    /\ started < MaxStarts

\* AsyncSession.close(): a session that holds its connection gives it back;
\* on a session already closed the call does nothing.  releases counts the
\* times the connection has been given back.
close(s) ==
    [state |-> "closed",
     releases |-> IF s.state = "open" THEN s.releases + 1 ELSE s.releases]

\* The exit of get_db, taken when the handler returns and when it raises:
\* the finally clause closes the session, then the exit of the async with
\* block closes it again.
get_db_exit(s) == close(close(s))

\* Mutant: get_db without the finally clause and the with block: a handler
\* that raises leaves its session open.
Done_NoFinally(r, resp, cause) ==
    LET s == IF resp.status = 200
             THEN get_db_exit([state |-> req[r].session,
                               releases |-> req[r].releases])
             ELSE [state |-> req[r].session, releases |-> req[r].releases]
    IN [Idle EXCEPT !.kind = req[r].kind, !.pc = "done", !.resp = resp,
                    !.cause = cause, !.row = req[r].row,
                    !.session = s.state, !.releases = s.releases]

\* A finished request: the response is out and the session is closed.
Done(r, resp, cause) ==
    LET s == get_db_exit([state |-> req[r].session,
                          releases |-> req[r].releases])
    IN [Idle EXCEPT !.kind = req[r].kind, !.pc = "done", !.resp = resp,
                    !.cause = cause, !.row = req[r].row,
                    !.session = s.state, !.releases = s.releases]

(***************************************************************************)
(* register                                                                *)
(***************************************************************************)
\* The request arrives: get_db opens its session.
StartRegister(r, email, password) ==
    /\ Free(r)
    /\ started' = started + 1
    /\ req' = [req EXCEPT ![r] =
                 [Idle EXCEPT !.kind = "register", !.pc = "lookup",
                              !.email = email, !.password = password,
                              !.session = "open"]]
    /\ UNCHANGED <<users, uniqueEmail, nextId, now, ticks, issued, interleaved>>

\* Another registration of the same email has passed the pre-check and has
\* not committed yet.
Racing(r) ==
    \E s \in Reqs \ {r} :
        /\ req[s].kind = "register"
        /\ req[s].pc = "commit"
        /\ req[s].email = req[r].email

\* Mutant: register without the check for an existing user.
RegisterLookup_NoPreCheck(r) ==
    /\ req[r].kind = "register"
    /\ req[r].pc = "lookup"
    /\ LET found == get_user_by_email(req[r].email)
       IN /\ req' = [req EXCEPT ![r] =
                IF found.raise # None THEN Done(r, ServerError, found.raise)
                ELSE [req[r] EXCEPT !.pc = "commit"]]
          /\ interleaved' =
                IF found.raise = None /\ found.row = <<>> /\ Racing(r)
                THEN interleaved \cup {req[r].email}
                ELSE interleaved
    /\ UNCHANGED <<users, uniqueEmail, nextId, now, ticks, issued, started>>

\* existing_user = await user_service.get_user_by_email(user.email)
RegisterLookup(r) ==
    /\ req[r].kind = "register"
    /\ req[r].pc = "lookup"
    /\ LET found == get_user_by_email(req[r].email)
       IN /\ req' = [req EXCEPT ![r] =
                IF found.raise # None THEN Done(r, ServerError, found.raise)
                ELSE IF found.row # <<>> THEN Done(r, DuplicateEmail, "duplicate")
                ELSE [req[r] EXCEPT !.pc = "commit"]]
          /\ interleaved' =
                IF found.raise = None /\ found.row = <<>> /\ Racing(r)
                THEN interleaved \cup {req[r].email}
                ELSE interleaved
    /\ UNCHANGED <<users, uniqueEmail, nextId, now, ticks, issued, started>>

\* create_user up to the commit: hash, uuid4, db.add, await db.commit().
NewUser(r) ==
    [id |-> nextId,
     email |-> req[r].email,
     hashed_password |-> get_password_hash(req[r].password, nextId),
     is_guest |-> FALSE]

\* Mutant: a commit that meets a row with the same email replaces it.
RegisterCommit_Upsert(r) ==
    /\ req[r].kind = "register"
    /\ req[r].pc = "commit"
    /\ nextId' = nextId + 1
    /\ users' = (users \ RowsByEmail(req[r].email)) \cup {NewUser(r)}
    /\ req' = [req EXCEPT ![r] =
                 [req[r] EXCEPT !.pc = "refresh", !.row = <<NewUser(r)>>]]
    /\ UNCHANGED <<uniqueEmail, now, ticks, issued, interleaved, started>>

RegisterCommit(r) ==
    /\ req[r].kind = "register"
    /\ req[r].pc = "commit"
    /\ nextId' = nextId + 1
    /\ IF CommitRaises(NewUser(r))
       THEN /\ users' = users
            /\ req' = [req EXCEPT ![r] = Done(r, ServerError, "IntegrityError")]
       ELSE /\ users' = users \cup {NewUser(r)}
            /\ req' = [req EXCEPT ![r] =
                         [req[r] EXCEPT !.pc = "refresh", !.row = <<NewUser(r)>>]]
    /\ UNCHANGED <<uniqueEmail, now, ticks, issued, interleaved, started>>

\* await db.refresh(db_user); return UserResponse.from_orm(db_user)
RegisterRefresh(r) ==
    /\ req[r].kind = "register"
    /\ req[r].pc = "refresh"
    /\ req' = [req EXCEPT ![r] = Done(r, Ok(UserResponse(req[r].row[1])), None)]
    /\ UNCHANGED <<users, uniqueEmail, nextId, now, ticks, issued, interleaved, started>>

(***************************************************************************)
(* login                                                                   *)
(***************************************************************************)
\* authenticate_user(db, email, password): the user, False, or the error
\* scalar_one_or_none raises.
authenticate_user(email, password) ==
    LET found == scalar_one_or_none(RowsByEmail(email))
    IN IF found.raise # None
       THEN [raise |-> found.raise, user |-> <<>>, why |-> None]
       ELSE IF found.row = <<>>
       THEN [raise |-> None, user |-> <<>>, why |-> "absent"]
       ELSE IF ~verify_password(password, found.row[1].hashed_password)
       THEN [raise |-> None, user |-> <<>>, why |-> "mismatch"]
       ELSE [raise |-> None, user |-> found.row, why |-> None]

\* One entry of the log of issued tokens.
Issue(token, ttl) == [token |-> token, at |-> now, ttl |-> ttl]

\* Mutant: an unknown email is answered differently from a wrong password.
login_rejected_Leaky(why) ==
    IF why = "absent"
    THEN Response(404, "User not found", None, <<>>)
    ELSE InvalidCredentials

\* if not user: raise HTTPException(401, ...), whatever made user False.
login_rejected(why) == InvalidCredentials

\* A request that one step serves: it takes a free slot and leaves its
\* response there, its session opened and closed on the way.
Served(r, kind, resp, cause) ==
    LET s == get_db_exit([state |-> "open", releases |-> 0])
    IN [Idle EXCEPT !.kind = kind, !.pc = "done", !.resp = resp,
                    !.cause = cause,
                    !.session = s.state, !.releases = s.releases]

\* login: its one await is the query of authenticate_user; then the 401 or
\* the token.
Login(r, email, password) ==
    /\ Free(r)
    /\ started' = started + 1
    /\ LET a == authenticate_user(email, password)
           access_token_expires == <<ACCESS_TOKEN_EXPIRE_MINUTES>>
           access_token == create_access_token([sub |-> a.user[1].email],
                                               access_token_expires, now)
       IN IF a.raise # None
          THEN /\ req' = [req EXCEPT ![r] = Served(r, "login", ServerError, a.raise)]
               /\ issued' = issued
          ELSE IF a.user = <<>>
          THEN /\ req' = [req EXCEPT ![r] =
                            Served(r, "login", login_rejected(a.why), a.why)]
               /\ issued' = issued
          ELSE /\ issued' = issued \cup {Issue(access_token, access_token_expires)}
               /\ req' = [req EXCEPT ![r] =
                    Served(r, "login",
                           Ok([access_token |-> access_token,
                               token_type |-> "bearer",
                               user |-> UserResponse(a.user[1])]), None)]
    /\ UNCHANGED <<users, uniqueEmail, nextId, now, ticks, interleaved>>

(***************************************************************************)
(* create_access_token called directly, with any data and expires_delta.   *)
(***************************************************************************)
Deltas == {<<>>, <<0>>, <<1>>}

IssueToken(sub, expires_delta) ==
    /\ issued' = issued \cup
          {Issue(create_access_token([sub |-> sub], expires_delta, now),
                 expires_delta)}
    /\ started < MaxStarts
    /\ started' = started + 1
    /\ UNCHANGED <<users, uniqueEmail, nextId, now, ticks, req, interleaved>>

(***************************************************************************)
(* get_current_user                                                        *)
(***************************************************************************)
\* The tokens a client can put in the Authorization header: those the
\* server has issued, those with one part changed, those signed with a
\* key or an algorithm of the client's own, and strings that are no token.
Tampered(t) ==
    {[t EXCEPT !.sub = e] : e \in Emails}
    \cup {[t EXCEPT !.exp = t.exp + ACCESS_TOKEN_EXPIRE_MINUTES]}
    \cup {[t EXCEPT !.sig = Sign(t, OtherKey, ALGORITHM)]}

Forged ==
    {jwt_encode([sub |-> e, exp |-> now + ACCESS_TOKEN_EXPIRE_MINUTES],
                ka[1], ka[2]) :
        e \in Emails, ka \in {<<OtherKey, ALGORITHM>>, <<"", "none">>}}

Presentable ==
    {l.token : l \in issued}
    \cup UNION {Tampered(l.token) : l \in issued}
    \cup Forged
    \cup {Garbage}

\* Mutant: the claims are read without verifying the signature.
decode_token_Unverified(token, t) ==
    IF token.fmt # "jwt" THEN [error |-> "malformed", sub |-> None]
    ELSE IF token.exp < t THEN [error |-> "expired", sub |-> None]
    ELSE [error |-> None, sub |-> token.sub]

\* payload = jwt.decode(credentials.credentials, settings.SECRET_KEY,
\*                      algorithms=[settings.ALGORITHM])
decode_token(token, t) == jwt_decode(token, SECRET_KEY, ALGORITHM, t)

\* Mutant: a subject without a record is answered with a 404.
get_current_user_NotFound(token, t) ==
    LET payload == decode_token(token, t)
        email == payload.sub
        found == scalar_one_or_none(RowsByEmail(email))
    IN IF payload.error # None
       THEN [resp |-> credentials_exception, cause |-> payload.error]
       ELSE IF email = None
       THEN [resp |-> credentials_exception, cause |-> "missing_sub"]
       ELSE IF found.raise # None
       THEN [resp |-> ServerError, cause |-> found.raise]
       ELSE IF found.row = <<>>
       THEN [resp |-> Response(404, "User not found", None, <<>>),
             cause |-> "unknown_subject"]
       ELSE [resp |-> Ok(found.row[1]), cause |-> None]

\* Mutant: an expired token is answered with a detail of its own.
get_current_user_Verbose(token, t) ==
    LET payload == decode_token(token, t)
        email == payload.sub
        found == scalar_one_or_none(RowsByEmail(email))
    IN IF payload.error = "expired"
       THEN [resp |-> Response(401, "Token has expired", "Bearer", <<>>),
             cause |-> payload.error]
       ELSE IF payload.error # None
       THEN [resp |-> credentials_exception, cause |-> payload.error]
       ELSE IF email = None
       THEN [resp |-> credentials_exception, cause |-> "missing_sub"]
       ELSE IF found.raise # None
       THEN [resp |-> ServerError, cause |-> found.raise]
       ELSE IF found.row = <<>>
       THEN [resp |-> credentials_exception, cause |-> "unknown_subject"]
       ELSE [resp |-> Ok(found.row[1]), cause |-> None]

\* get_current_user(credentials, db) at time t: the user, or the error.
get_current_user(token, t) ==
    LET payload == decode_token(token, t)
        email == payload.sub
        found == scalar_one_or_none(RowsByEmail(email))
    IN IF payload.error # None
       THEN [resp |-> credentials_exception, cause |-> payload.error]
       ELSE IF email = None
       THEN [resp |-> credentials_exception, cause |-> "missing_sub"]
       ELSE IF found.raise # None
       THEN [resp |-> ServerError, cause |-> found.raise]
       ELSE IF found.row = <<>>
       THEN [resp |-> credentials_exception, cause |-> "unknown_subject"]
       ELSE [resp |-> Ok(found.row[1]), cause |-> None]

Authenticate(r, token) ==
    /\ Free(r)
    /\ started' = started + 1
    /\ LET g == get_current_user(token, now)
       IN req' = [req EXCEPT ![r] = Served(r, "auth", g.resp, g.cause)]
    /\ UNCHANGED <<users, uniqueEmail, nextId, now, ticks, issued, interleaved>>

(***************************************************************************)
(* The environment: the clock.                                             *)
(***************************************************************************)
Steps == {1, ACCESS_TOKEN_EXPIRE_MINUTES}

Tick(d) ==
    /\ ticks < MaxTicks
    /\ ticks' = ticks + 1
    /\ now' = now + d
    /\ UNCHANGED <<users, uniqueEmail, nextId, issued, req, interleaved, started>>

Next ==
    \/ \E r \in Reqs, e \in Emails, p \in Passwords : StartRegister(r, e, p)
    \/ \E r \in Reqs : RegisterLookup(r)
    \/ \E r \in Reqs : RegisterCommit(r)
    \/ \E r \in Reqs : RegisterRefresh(r)
    \/ \E r \in Reqs, e \in Emails, p \in Passwords : Login(r, e, p)
    \/ \E sub \in Emails \cup {None}, d \in Deltas : IssueToken(sub, d)
    \/ \E r \in Reqs, t \in Presentable : Authenticate(r, t)
    \/ \E d \in Steps : Tick(d)

Spec == Init /\ [][Next]_vars

SpecNoConstraint == InitNoConstraint /\ [][Next]_vars

(***************************************************************************)
(* Store faults: an await on the store can raise (connection lost, store   *)
(* unreachable).  The exception leaves the handler and the caller gets a   *)
(* 500.  A fault on commit is one raised before the transaction commits.   *)
(***************************************************************************)
StoreFault(r) ==
    /\ req[r].kind = "register"
    /\ req[r].pc \in {"lookup", "commit", "refresh"}
    /\ req' = [req EXCEPT ![r] = Done(r, ServerError, "StoreFault")]
    /\ UNCHANGED <<users, uniqueEmail, nextId, now, ticks, issued, interleaved, started>>

\* The one query of login or get_current_user raises.
QueryFault(r, kind) ==
    /\ Free(r)
    /\ started' = started + 1
    /\ req' = [req EXCEPT ![r] = Served(r, kind, ServerError, "StoreFault")]
    /\ UNCHANGED <<users, uniqueEmail, nextId, now, ticks, issued, interleaved>>

NextFault ==
    \/ Next
    \/ \E r \in Reqs : StoreFault(r)
    \/ \E r \in Reqs, kind \in {"login", "auth"} : QueryFault(r, kind)

SpecFault == Init /\ [][NextFault]_vars

\* The event loop resumes a handler when the await it waits on completes,
\* and an await on the store completes: with its result or with an error.
Resume(r) ==
    \/ RegisterLookup(r)
    \/ RegisterCommit(r)
    \/ RegisterRefresh(r)
    \/ StoreFault(r)

SpecFaultFair == SpecFault /\ \A r \in Reqs : WF_vars(Resume(r))

(***************************************************************************)
(* Properties.  A property of one operation is an action property: it      *)
(* reads the operation's inputs and the store before the step and the      *)
(* response after it.                                                      *)
(***************************************************************************)
IssuedTokens == {l.token : l \in issued}

\* The rows a successful register(e, p) has created.
Registered(e, p) ==
    {u \in users : /\ u.email = e
                   /\ u.hashed_password =
                          get_password_hash(p, u.hashed_password.salt)}

Slots(kind) == {r \in Reqs : req[r].kind = kind /\ req[r].pc = "done"}

C2_SecondRegisterRejected ==
    [][\A r \in Reqs :
          (/\ RegisterLookup(r)
           /\ Cardinality(RowsByEmail(req[r].email)) = 1) =>
              /\ req'[r].pc = "done"
              /\ req'[r].resp = DuplicateEmail
              /\ req'[r].row = <<>>
              /\ users' = users
      ]_vars

C2_Witness ==
    \E r \in Slots("register"), e \in Emails :
        /\ req[r].resp = DuplicateEmail
        /\ Cardinality(RowsByEmail(e)) = 1
        /\ Cardinality(users) = 1

\* C3: login for an email with no record, and login for an email whose
\* record does not match the password, end in the same response,
\* InvalidCredentials (401, one detail, WWW-Authenticate: Bearer), and issue
\* no token.
C3_LoginFailuresAlike ==
    [][\A r \in Reqs, e \in Emails, p \in Passwords :
          (/\ Login(r, e, p)
           /\ \/ RowsByEmail(e) = {}
              \/ \E u \in RowsByEmail(e) : u \notin Registered(e, p)) =>
              /\ req'[r].resp = InvalidCredentials
              /\ issued' = issued
      ]_vars

C3_Witness ==
    \E r, s \in Slots("login") :
        /\ req[r].cause = "absent"
        /\ req[s].cause = "mismatch"
        /\ req[r].resp = req[s].resp

\* C4: a token issued with expires_delta of zero has expiry equal to the
\* issue time, and every verification after the issue time rejects it as
\* expired.
C4_ZeroTtlExpired ==
    [][/\ \A l \in issued' \ issued :
            l.ttl = <<0>> => l.token.exp = l.at
       /\ \A r \in Reqs, l \in issued :
            (Authenticate(r, l.token) /\ l.ttl = <<0>> /\ l.at < now) =>
                /\ req'[r].resp = credentials_exception
                /\ req'[r].cause = "expired"
      ]_vars

\* C5: get_current_user returns a user only for a token the server issued,
\* and the user it returns has the email that token was issued for; every
\* presented token that is not one the server issued is rejected.
C5_OnlyIssuedTokensAccepted ==
    [][\A r \in Reqs, t \in Presentable :
          Authenticate(r, t) =>
              /\ t \notin IssuedTokens => req'[r].resp = credentials_exception
              /\ req'[r].resp.status = 200 =>
                    /\ t \in IssuedTokens
                    /\ req'[r].resp.body[1].email = t.sub
      ]_vars

C5_Witness ==
    \E r \in Slots("auth") :
        /\ req[r].cause = "bad_signature"
        /\ issued # {}

\* C6: get_current_user on an issued, unexpired token whose subject has no
\* record ends with the 401 and returns no user; when it returns a user, that
\* user is a record whose email is the token's subject at the lookup.
C6_UnknownSubjectRejected ==
    [][\A r \in Reqs, t \in Presentable :
          Authenticate(r, t) =>
              /\ (/\ t \in IssuedTokens
                  /\ now <= t.exp
                  /\ t.sub # None
                  /\ RowsByEmail(t.sub) = {}) =>
                     /\ req'[r].resp = credentials_exception
                     /\ req'[r].resp.status = 401
              /\ req'[r].resp.status = 200 =>
                     req'[r].resp.body[1] \in RowsByEmail(t.sub)
      ]_vars

C6_Witness ==
    \E r \in Slots("auth") :
        /\ req[r].cause = "unknown_subject"
        /\ req[r].resp.status = 401

\* C7: whatever makes get_current_user reject a token (malformed, bad
\* signature, expired, no subject, unknown subject), the caller sees the
\* same response: 401, one detail, WWW-Authenticate: Bearer.
RejectCauses ==
    {"malformed", "bad_signature", "expired", "missing_sub", "unknown_subject"}

\* What makes get_current_user reject token t: it is not a token the server
\* signed, it has expired, it names no subject, or its subject has no record.
Rejectable(t) ==
    \/ t \notin IssuedTokens
    \/ t.exp < now
    \/ t.sub = None
    \/ RowsByEmail(t.sub) = {}

C7_RejectionsAlike ==
    [][\A r \in Reqs, t \in Presentable :
          (Authenticate(r, t) /\ Rejectable(t)) =>
              /\ req'[r].cause \in RejectCauses
              /\ Visible(req'[r].resp) =
                    [status |-> 401, detail |-> "Could not validate credentials",
                     www |-> "Bearer"]
      ]_vars

C7_Witness ==
    \E r, s \in Slots("auth") :
        /\ req[r].cause = "malformed"
        /\ req[s].cause = "bad_signature"
        /\ Visible(req[r].resp) = Visible(req[s].resp)

\* C8: without the unique constraint, an email whose registrations have not
\* raced has at most one record; two registrations that race leave two
\* records with one email (the witness).
C8_UniqueUnlessRaced ==
    \A e \in Emails :
        e \notin interleaved => Cardinality(RowsByEmail(e)) <= 1

C8_Witness ==
    /\ ~uniqueEmail
    /\ \E e \in Emails : Cardinality(RowsByEmail(e)) = 2

\* C9: with the unique constraint every register ends with success or with
\* DuplicateEmail (400), never with another outcome.
C9_RegisterNever5xx ==
    \A r \in Slots("register") :
        uniqueEmail =>
            \/ req[r].resp.status = 200
            \/ req[r].resp = DuplicateEmail

\* C10: a finished register has committed a record exactly when it answered
\* with success; the record is in the store, is no guest and does not hold
\* the plaintext.
C10_RegisterAllOrNothing ==
    \A r \in Slots("register") :
        /\ req[r].resp.status = 200 <=> req[r].row # <<>>
        /\ req[r].row # <<>> =>
              /\ req[r].row[1] \in users
              /\ req[r].row[1].is_guest = FALSE
              /\ req[r].row[1].hashed_password.scheme = "bcrypt"

\* C11: a token the server signed is accepted by the verification when
\* now <= exp and rejected as expired when now > exp; the clock only
\* advances, so a token that is expired stays expired after every step,
\* whatever the step is.
C11_ExpiredStaysExpired ==
    [][/\ \A r \in Reqs, t \in IssuedTokens :
            Authenticate(r, t) =>
                /\ now <= t.exp =>
                      /\ decode_token(t, now).error = None
                      /\ req'[r].cause \notin
                             {"expired", "malformed", "bad_signature"}
                /\ now > t.exp =>
                      /\ req'[r].resp = credentials_exception
                      /\ req'[r].cause = "expired"
       /\ now' >= now
       /\ \A t \in IssuedTokens :
            decode_token(t, now).error = "expired" =>
                decode_token(t, now').error = "expired"
      ]_vars

C11_Witness ==
    \E r \in Slots("auth"), l1 \in issued, l2 \in issued :
        /\ req[r].cause = "expired"
        /\ l1.token.exp < now
        /\ l1.token.exp < l2.at

\* C12: no step deletes a user record or changes the id, the email or the
\* hash of one: every record of the store is in the store, as it is, after
\* the step, and no record of another content takes its id; login and
\* get_current_user leave the store as it is.
C12_StoreOnlyGrows ==
    [][/\ users \subseteq users'
       /\ \A u \in users, v \in users' : v.id = u.id => v = u
       /\ \A r \in Reqs, e \in Emails, p \in Passwords :
            Login(r, e, p) => users' = users
       /\ \A r \in Reqs, t \in Presentable :
            Authenticate(r, t) => users' = users
      ]_vars

C12_Witness ==
    /\ Cardinality(users) = 2
    /\ \E r \in Slots("login") : req[r].resp.status = 200

\* C13: a request that holds a session gives it back, however it ends
\* (return, 400 or 401, store fault); when no request is in flight no
\* session is held; a session is given back once, and a handler step runs
\* only on a session that is open.
InFlight(r) == req[r].pc \in {"lookup", "commit", "refresh"}

====
